---- MODULE Spec2Model ----
(***************************************************************************)
(* Model of the Slang playground language-server worker (the browser       *)
(* server main module): the document synchronizer, the Emscripten          *)
(* file-system mirror, the lazy module-initialization guards and the       *)
(* compile handler.                                                        *)
(*                                                                         *)
(* A text is a sequence of one-character strings; NL is the line break.    *)
(* A URI or path is a sequence of tokens (scheme prefix, directory,        *)
(* file name), so that prefix stripping works on token boundaries.         *)
(***************************************************************************)
EXTENDS Integers, Sequences, FiniteSets, TLC

\* ------------------------------------------------------------------ bounds
MaxLen == 3          \* longest text drawn as an input of the edit function
MaxPos == 2          \* largest line / character number of an edit position
MaxBatch == 2        \* most edits in one change notification
MaxDocLen == 2       \* longest document the running service is driven to
MaxInitCalls == 2    \* initialize requests the client may send
MaxCompiles == 2     \* compile requests that may be in flight at once
MaxUriLen == 3       \* most tokens of a URI drawn as an input of the translation
CallCap == 3         \* the counters of module instantiations saturate here

\* ------------------------------------------------------- JavaScript values
NL == "\n"
Letters == {"a", "b"}
Chars == Letters \cup {NL}

\* `undefined` and a thrown TypeError, as values no text can equal
Undefined == <<"undefined">>
TypeError == <<"TypeError">>

Min(a, b) == IF a < b THEN a ELSE b
Max(a, b) == IF a > b THEN a ELSE b

\* all sequences over S of length at most n
RECURSIVE SeqsUpTo(_, _)
SeqsUpTo(S, n) ==
    IF n = 0 THEN {<<>>}
    ELSE LET shorter == SeqsUpTo(S, n - 1)
         IN  shorter \cup {Append(s, c) : s \in {x \in shorter : Len(x) = n - 1}, c \in S}

\* String.prototype.split('\n'): always at least one piece
RECURSIVE splitFrom(_, _, _)
splitFrom(s, i, piece) ==
    IF i > Len(s) THEN <<piece>>
    ELSE IF s[i] = NL THEN <<piece>> \o splitFrom(s, i + 1, <<>>)
    ELSE splitFrom(s, i + 1, Append(piece, s[i]))
split(s) == splitFrom(s, 1, <<>>)

\* Array.prototype.join('\n')
RECURSIVE join(_)
join(parts) ==
    IF Len(parts) = 0 THEN <<>>
    ELSE IF Len(parts) = 1 THEN parts[1]
    ELSE parts[1] \o <<NL>> \o join(Tail(parts))

\* Array.prototype.slice(from, to) for non-negative arguments: both clamped
slice(arr, from, to) == SubSeq(arr, Min(from, Len(arr)) + 1, Min(to, Len(arr)))

\* String.prototype.substring(a, b): both clamped to the string, swapped if a > b
substring(s, a, b) ==
    LET ca == Min(a, Len(s))
        cb == Min(b, Len(s))
    IN  SubSeq(s, Min(ca, cb) + 1, Max(ca, cb))

\* lines[i] without the `?? ''` fallback: undefined past the end of the array
lineUnguarded(lines, i) == IF i < Len(lines) THEN lines[i + 1] ELSE Undefined

\* lines[i] ?? ''
lineOrEmpty(lines, i) == IF i < Len(lines) THEN lines[i + 1] ELSE <<>>

\* TextDocumentContentChangeEvent.isIncremental: the change carries a range
isIncremental(change) == "range" \in DOMAIN change

Pos(l, c) == [line |-> l, character |-> c]
RangedChange(sl, sc, el, ec, t) ==
    [range |-> [start |-> Pos(sl, sc), end |-> Pos(el, ec)], text |-> t]
FullChange(t) == [text |-> t]

\* the array [...before, ...middle, ...after] of applyIncrementalChange
changedLines(lines, change) ==
    LET startLine == change.range.start.line
        startChar == change.range.start.character
        endLine   == change.range.end.line
        endChar   == change.range.end.character
        before    == slice(lines, 0, startLine)
        after     == slice(lines, endLine + 1, Len(lines))
        prefix    == substring(lineOrEmpty(lines, startLine), 0, startChar)
        endText   == lineOrEmpty(lines, endLine)
        suffix    == substring(endText, endChar, Len(endText))
        newLines  == split(change.text)
        n         == Len(newLines)
        middle    == [i \in 1..n |->
                        (IF i = 1 THEN prefix ELSE <<>>) \o newLines[i]
                            \o (IF i = n THEN suffix ELSE <<>>)]
    IN  before \o middle \o after

\* the same with `after = lines.slice(endLine)`: the end line is kept twice
applyIncrementalChange_KeepEndLine(text, change) ==
    IF ~isIncremental(change) THEN change.text
    ELSE LET lines == split(text)
             good  == changedLines(lines, change)
             el    == change.range.end.line
         IN  join(good \o (IF el < Len(lines) THEN <<lines[el + 1]>> ELSE <<>>))

\* a full-text change appended to the buffer instead of replacing it
applyIncrementalChange_AppendFull(text, change) ==
    IF ~isIncremental(change) THEN text \o change.text
    ELSE join(changedLines(split(text), change))

applyIncrementalChange(text, change) ==
    IF ~isIncremental(change) THEN change.text
    ELSE LET lines == split(text)
         IN  IF lineOrEmpty(lines, change.range.start.line) = Undefined
                \/ lineOrEmpty(lines, change.range.end.line) = Undefined
             THEN TypeError        \* undefined.substring(...)
             ELSE join(changedLines(lines, change))

\* ------------------------------------------- positions, as the protocol reads them
\* a position lies inside the text: an existing line, a character up to its end
inBounds(text, pos) ==
    LET lines == split(text)
    IN  pos.line < Len(lines) /\ pos.character <= Len(lines[pos.line + 1])

notAfter(p, q) == p.line < q.line \/ (p.line = q.line /\ p.character <= q.character)

\* the nearest valid position of the text
clampPosition(text, pos) ==
    LET lines == split(text)
    IN  IF pos.line >= Len(lines)
        THEN Pos(Len(lines) - 1, Len(lines[Len(lines)]))
        ELSE Pos(pos.line, Min(pos.character, Len(lines[pos.line + 1])))

\* number of characters of the text before a position inside it
RECURSIVE offsetAt(_, _)
offsetAt(text, pos) ==
    IF pos.line = 0 THEN pos.character
    ELSE LET first == Len(split(text)[1]) + 1
         IN  first + offsetAt(SubSeq(text, first + 1, Len(text)), Pos(pos.line - 1, pos.character))

textBefore(text, pos) == SubSeq(text, 1, offsetAt(text, pos))
textFrom(text, pos) == SubSeq(text, offsetAt(text, pos) + 1, Len(text))

\* ------------------------------------------------------------------ state
VARIABLES
    slangd,                 \* the language server object is set
    compiler,               \* the SlangCompiler object is set
    slangWasmModule,        \* the compiler's WASM module (and its FS) is set
    spirvWasmModule,        \* the disassembler's WASM module is set
    moduleReady,            \* null | pending | resolved | rejected
    spirvModuleReady,       \* null | pending | resolved | rejected
    initializationOptions,  \* the payload kept by onInitialize
    fs,                     \* Emscripten FS: path -> content of each file
    slangdDocs,             \* the compiler service's documents: URI -> text
    loadedPlaygroundFiles,  \* dedupe set of openPlayground
    playgroundLoads,        \* support-module URI -> times openPlayground loaded it
    initTasks,              \* onInitialize calls: idle | awaiting | returned | threw
    compileTasks,           \* slang/compile calls: idle | awaiting
    opsStarted,             \* the client has sent something after initialize
    editor,                 \* URI -> the text the editor shows, kept while every
                            \* change sent for it was well formed and accepted
    openDocs,               \* editor URIs whose didOpen handler has returned
    createModuleCalls,      \* calls of createModule()
    createSpirvModuleCalls, \* calls of createSpirvModule()
    lastEnsure,             \* what the last ensureSlangModuleLoaded call did
    lastOp,                 \* the handler that ran last and how it ended
    command,                \* the client's command that is running and how far it is
    eText,      \* edit function: the text it is applied to
    eChange,    \* edit function: the change applied
    eBatch,     \* edit function: the batch of changes applied
    eResult,    \* edit function: what came back
    eWrites,    \* edit function: the contents FS.writeFile was called with
    ePc,        \* edit function: "input" before the call, then "applied" or "modified"
    tUri,       \* address translation: the URI it is applied to
    tOut,       \* address translation: the sandbox path, sandbox URI and editor URI got
    tPc         \* address translation: "input", then "sandbox", then "editor"

uriVars == <<tUri, tOut, tPc>>
editVars == <<eText, eChange, eBatch, eResult, eWrites, ePc, tUri, tOut, tPc>>
serverVars == <<slangd, compiler, slangWasmModule, spirvWasmModule, moduleReady,
                spirvModuleReady, initializationOptions, fs, slangdDocs,
                loadedPlaygroundFiles, playgroundLoads, initTasks, compileTasks, opsStarted, editor,
                openDocs, createModuleCalls, createSpirvModuleCalls, lastEnsure, lastOp>>
serviceVars == <<slangd, compiler, slangWasmModule, spirvWasmModule, moduleReady,
                 spirvModuleReady, initializationOptions, fs, slangdDocs,
                 loadedPlaygroundFiles, playgroundLoads, initTasks, compileTasks, opsStarted, editor,
                 openDocs, createModuleCalls, createSpirvModuleCalls, lastEnsure, lastOp,
                 command>>
vars == <<slangd, compiler, slangWasmModule, spirvWasmModule, moduleReady,
          spirvModuleReady, initializationOptions, fs, slangdDocs,
          loadedPlaygroundFiles, playgroundLoads, initTasks, compileTasks, opsStarted, editor,
          openDocs, createModuleCalls, createSpirvModuleCalls, lastEnsure, lastOp,
          command,
          eText, eChange, eBatch, eResult, eWrites, ePc, tUri, tOut, tPc>>

\* -------------------------------------------------------- URIs and paths
SchemeWeb == "vscode-test-web://"
SchemeFile == "file:///"
\* the scheme of documents in vscode.dev and github.dev
SchemeVfs == "vscode-vfs://"
PlaygroundName == "playground.slang"

\* the editor's documents: one shader and a file named like the support module
UriShader == <<SchemeWeb, "ws/", "a.slang">>
UriPlayground == <<SchemeWeb, "ws/", PlaygroundName>>
EditorURIs == {UriShader, UriPlayground}
\* a shader in a subdirectory of the workspace
UriLib == <<SchemeWeb, "ws/", "lib/", "b.slang">>
OpenURIs == EditorURIs \cup {UriLib}

\* the text of server/src/slang/playground.slang
playgroundSource == <<"a">>

startsWith(data, prefix) ==
    Len(prefix) <= Len(data) /\ SubSeq(data, 1, Len(prefix)) = prefix

removePrefix(data, prefix) ==
    IF startsWith(data, prefix) THEN SubSeq(data, Len(prefix) + 1, Len(data)) ELSE data

\* the property names `for (const workspaceUri in array)` enumerates: "0", "1", ...
IndexKeys == <<"0", "1", "2", "3">>

\* .replaceAll('\\', '/').replaceAll(':', '%3A'), token by token
escapeWorkspaceUri(w) ==
    [i \in 1..Len(w) |-> IF w[i] = "\\" THEN "/" ELSE IF w[i] = ":" THEN "%3A" ELSE w[i]]

\* the for-in loop of getEmscriptenURI over the keys k .. n-1 of workspaceUris
RECURSIVE stripWorkspaceKeys(_, _, _)
stripWorkspaceKeys(uri, k, n) ==
    IF k >= n THEN uri
    ELSE stripWorkspaceKeys(removePrefix(uri, escapeWorkspaceUri(<<IndexKeys[k + 1]>>)),
                            k + 1, n)

getEmscriptenURI(uri) ==
    stripWorkspaceKeys(removePrefix(removePrefix(uri, <<SchemeWeb>>), <<SchemeFile>>),
                       0, Len(initializationOptions.workspaceUris))

getSlangdURI(uri) == <<SchemeFile>> \o getEmscriptenURI(uri)

vscodeURIFromSlangdURI(uri) == <<SchemeWeb>> \o removePrefix(uri, <<SchemeFile>>)

\* wasmURI.split('/'), pop(), join('/') + '/playground.slang'
playgroundURIOf(wasmURI) == SubSeq(wasmURI, 1, Len(wasmURI) - 1) \o <<PlaygroundName>>

\* ------------------------------------------------------ the mirrored files
\* a map with one entry set; the maps are functions on the keys they hold
Put(f, k, v) == [x \in (DOMAIN f) \cup {k} |-> IF x = k THEN v ELSE f[x]]
Without(f, k) == [x \in (DOMAIN f) \ {k} |-> f[x]]
NoFiles == <<>>

\* a write that starts from an empty filesystem: the file written is the only
\* one left
loadFileIntoEmscriptenFS_Fresh(files, uri, content) == Put(NoFiles, uri, content)

\* createPath for the parent if needed, then FS.writeFile: create or overwrite
loadFileIntoEmscriptenFS(files, uri, content) == Put(files, uri, content)

\* the for loop of modifyEmscriptenFile; a TypeError ends it
RECURSIVE applyChanges(_, _)
applyChanges(content, changes) ==
    IF Len(changes) = 0 \/ content = TypeError THEN content
    ELSE applyChanges(applyIncrementalChange(content, Head(changes)), Tail(changes))

\* the loop run from the last change to the first
RECURSIVE applyChangesReversed(_, _)
applyChangesReversed(content, changes) ==
    IF Len(changes) = 0 \/ content = TypeError THEN content
    ELSE applyChangesReversed(
             applyIncrementalChange(content, changes[Len(changes)]),
             SubSeq(changes, 1, Len(changes) - 1))

\* every change applied to the content read, not to the running buffer
modifyEmscriptenFile_FromOriginal(files, uri, changes) ==
    IF uri \notin DOMAIN files THEN [threw |-> TRUE, files |-> files, writes |-> <<>>]
    ELSE LET content == IF Len(changes) = 0 THEN files[uri]
                        ELSE applyIncrementalChange(files[uri], changes[Len(changes)])
         IN  [threw |-> FALSE, files |-> Put(files, uri, content),
              writes |-> <<content>>]

\* a read that takes a missing file for an empty one
modifyEmscriptenFile_CreateMissing(files, uri, changes) ==
    LET content == applyChanges(IF uri \in DOMAIN files THEN files[uri] ELSE <<>>, changes)
    IN  IF content = TypeError THEN [threw |-> TRUE, files |-> files, writes |-> <<>>]
        ELSE [threw |-> FALSE, files |-> Put(files, uri, content),
              writes |-> <<content>>]

\* the contents after the first change, the first two, ... up to the first
\* change that throws
RECURSIVE contentsAfterEach(_, _)
contentsAfterEach(content, changes) ==
    IF Len(changes) = 0 THEN <<>>
    ELSE LET next == applyIncrementalChange(content, Head(changes))
         IN  IF next = TypeError THEN <<>>
             ELSE <<next>> \o contentsAfterEach(next, Tail(changes))

\* a loop that writes the file back after every change
modifyEmscriptenFile_WritePerChange(files, uri, changes) ==
    IF uri \notin DOMAIN files THEN [threw |-> TRUE, files |-> files, writes |-> <<>>]
    ELSE LET written == contentsAfterEach(files[uri], changes)
             stored == IF Len(written) = 0 THEN files[uri] ELSE written[Len(written)]
         IN  [threw |-> applyChanges(files[uri], changes) = TypeError,
              files |-> Put(files, uri, stored),
              writes |-> written]

\* FS.readFile (ENOENT when the file is missing), the loop, FS.writeFile;
\* writes lists the contents FS.writeFile was called with
modifyEmscriptenFile(files, uri, changes) ==
    IF uri \notin DOMAIN files THEN [threw |-> TRUE, files |-> files, writes |-> <<>>]
    ELSE LET content == applyChanges(files[uri], changes)
         IN  IF content = TypeError
             THEN [threw |-> TRUE, files |-> files, writes |-> <<>>]
             ELSE [threw |-> FALSE, files |-> Put(files, uri, content),
                   writes |-> <<content>>]

\* ------------------------------------- the compiler service (slangd), external
\* a ranged edit as the protocol defines it, positions clamped to the text
lspApplyChange(text, change) ==
    IF ~isIncremental(change) THEN change.text
    ELSE LET s == offsetAt(text, clampPosition(text, change.range.start))
             e == offsetAt(text, clampPosition(text, change.range.end))
         IN  SubSeq(text, 1, Min(s, e)) \o change.text \o SubSeq(text, Max(s, e) + 1, Len(text))

RECURSIVE lspApplyChanges(_, _)
lspApplyChanges(text, changes) ==
    IF Len(changes) = 0 THEN text
    ELSE lspApplyChanges(lspApplyChange(text, Head(changes)), Tail(changes))

\* slangd.didOpenTextDocument(uri, text)
slangdDidOpen(docs, uri, text) == Put(docs, uri, text)

\* slangd.didChangeTextDocument(uri, edits): the edits applied to its copy
slangdDidChange(docs, uri, edits) ==
    IF uri \in DOMAIN docs THEN Put(docs, uri, lspApplyChanges(docs[uri], edits)) ELSE docs

\* every change is well formed for the text it meets: full, or inside the text
RECURSIVE wellFormed(_, _)
wellFormed(text, changes) ==
    IF Len(changes) = 0 THEN TRUE
    ELSE LET c == Head(changes)
         IN  /\ isIncremental(c) =>
                  /\ inBounds(text, c.range.start)
                  /\ inBounds(text, c.range.end)
                  /\ notAfter(c.range.start, c.range.end)
             /\ wellFormed(lspApplyChange(text, c), Tail(changes))

\* ------------------------------------------------------------ the inputs
\* initialization payloads: none; one without a manifest; an empty manifest;
\* a manifest that preloads the shader
NoOptions == [present |-> FALSE, hasFiles |-> FALSE, files |-> <<>>, workspaceUris |-> <<>>]
Payload(hasFiles, files) ==
    [present |-> TRUE, hasFiles |-> hasFiles, files |-> files, workspaceUris |-> <<<<"ws/">>>>]
ManifestShader == <<[uri |-> UriShader, content |-> <<"a">>]>>
InitPayloads == {NoOptions, Payload(FALSE, <<>>), Payload(TRUE, <<>>), Payload(TRUE, ManifestShader)}
\* a workspace without shader files: nothing to preload
SyncPayloads == {Payload(TRUE, <<>>)}
\* a shader in a second folder whose manifest URI translates to the path of
\* the first
UriShaderTwin == <<SchemeWeb, "0", "ws/", "a.slang">>
ManifestTwice == <<[uri |-> UriShader, content |-> <<"a">>],
                   [uri |-> UriShaderTwin, content |-> <<"b">>]>>
\* the payloads of a client that always sends a manifest: empty, one shader,
\* two shaders at one sandbox path
ManifestPayloads == {Payload(TRUE, <<>>), Payload(TRUE, ManifestShader), Payload(TRUE, ManifestTwice)}

OpenTexts == {<<>>, <<"a">>}

\* the change notifications the editor sends: an insertion at the start, a
\* line break, a deletion of the first character (past the end of an empty
\* line), an insertion on the second line (past the last line of a one-line
\* text), and two batches, one of them with a full-text change in it
InsertA == RangedChange(0, 0, 0, 0, <<"a">>)
InsertNL == RangedChange(0, 0, 0, 0, <<NL>>)
DeleteFirst == RangedChange(0, 0, 0, 1, <<>>)
InsertSecondLine == RangedChange(1, 0, 1, 0, <<"a">>)
SyncBatches == {
    <<InsertA>>,
    <<InsertNL>>,
    <<DeleteFirst>>,
    <<InsertSecondLine>>,
    <<InsertA, InsertNL>>,
    <<InsertA, FullChange(<<>>)>> }

RECURSIVE BatchesUpTo(_, _)
BatchesUpTo(S, n) ==
    IF n = 0 THEN {}
    ELSE {<<c>> : c \in S} \cup
         {Append(b, c) : b \in {x \in BatchesUpTo(S, n - 1) : Len(x) = n - 1}, c \in S}

Queries == {"completion", "hover", "definition", "signatureHelp", "documentSymbol"}
Targets == {"SPIRV", "WGSL"}

\* the parameters of a slang/compile request
CompileParams(shaderPath, sourceCode, entrypoint, target, noWebGPU) ==
    [shaderPath |-> shaderPath, sourceCode |-> sourceCode, entrypoint |-> entrypoint,
     target |-> target, noWebGPU |-> noWebGPU]
\* no request
NoRequest == CompileParams(<<>>, <<>>, "", "none", FALSE)
\* the compile requests of the shader as it stands, for each target
GuardRequests == {CompileParams(UriShader, <<"a">>, "", target, TRUE) : target \in Targets}
\* reflection metadata without parameters and entry points
NoReflection == [parameters |-> <<>>, entryPoints |-> <<>>]
\* no plan has been handed to the playground's runtime
NoPlan == [callCommands |-> <<>>, resourceCommands |-> <<>>]
\* no command of the client is running
NoCommand ==
    [kind |-> "none", pc |-> "idle", target |-> "none", discovery |-> "none",
     entrypoints |-> <<>>, selected |-> "", sent |-> NoRequest, response |-> "none",
     outcome |-> "none", reflection |-> NoReflection, plan |-> NoPlan]
\* compile requests for the shader: two source texts, each target, with and
\* without noWebGPU
CompileRequests ==
    {CompileParams(UriShader, sourceCode, "", target, noWebGPU) :
        sourceCode \in {<<"a">>, <<"b">>}, target \in Targets, noWebGPU \in BOOLEAN}
\* a slang/compile handler that is not waiting
IdleTask == [pc |-> "idle", params |-> NoRequest, compilation |-> [succ |-> FALSE, from |-> NoRequest]]
\* the service on a change: it takes the edits and returns diagnostics, takes
\* them and returns a malformed handle, or throws
ServiceOutcomes == {"diagnostics", "malformed", "throws"}
SyncOutcomes == {"diagnostics", "throws"}

\* ------------------------------------------------------------ the handlers
Op(kind, uri, outcome, uninit) ==
    [kind |-> kind, uri |-> uri, outcome |-> outcome, uninit |-> uninit,
     published |-> "none", publishedTo |-> <<>>, service |-> "none",
     oob |-> FALSE, response |-> "none", dis |-> "none", code |-> "none",
     message |-> "", request |-> NoRequest, of |-> NoRequest, resumed |-> FALSE]
NoOp == Op("none", <<>>, "returned", FALSE)

Bump(n) == Min(n + 1, CallCap)

ServiceInitWith(opts) ==
    /\ slangd = FALSE
    /\ compiler = FALSE
    /\ slangWasmModule = FALSE
    /\ spirvWasmModule = FALSE
    /\ moduleReady = "null"
    /\ spirvModuleReady = "null"
    /\ initializationOptions = opts
    /\ fs = NoFiles
    /\ slangdDocs = NoFiles
    /\ loadedPlaygroundFiles = {}
    /\ playgroundLoads = NoFiles
    /\ initTasks = [i \in 1..MaxInitCalls |-> "idle"]
    /\ compileTasks = [c \in 1..MaxCompiles |-> IdleTask]
    /\ opsStarted = FALSE
    /\ editor = NoFiles
    /\ openDocs = {}
    /\ createModuleCalls = 0
    /\ createSpirvModuleCalls = 0
    /\ lastEnsure = [called |-> FALSE, wasRejected |-> FALSE, started |-> FALSE]
    /\ lastOp = NoOp
    /\ command = NoCommand

ServiceInit == ServiceInitWith(NoOptions)

\* a continuation that can run does so before the next message is handled
NoResumable ==
    /\ \A i \in 1..MaxInitCalls : initTasks[i] = "awaiting" => moduleReady = "pending"
    /\ \A c \in 1..MaxCompiles : compileTasks[c].pc = "awaiting" => spirvModuleReady = "pending"

\* the client sends documents, queries and compiles once initialize has returned
ClientReady ==
    /\ NoResumable
    /\ \E i \in 1..MaxInitCalls : initTasks[i] = "returned"
    /\ \A i \in 1..MaxInitCalls : initTasks[i] # "awaiting"

\* ensureSlangModuleLoaded starts an instantiation with the shared promise
\* ignored: every caller that finds no language server starts its own
ensureSlangStartsLoad_NoSharedPromise == ~slangd /\ moduleReady # "resolved"

\* ensureSlangModuleLoaded reaches createModule(): no server, no promise yet
ensureSlangStartsLoad == ~slangd /\ moduleReady = "null"

\* the same for a disassembler guard that ignores the shared promise
ensureSpirvStartsLoad_NoSharedPromise == ~spirvWasmModule /\ spirvModuleReady # "resolved"

\* ensureSpirvModuleLoaded reaches createSpirvModule()
ensureSpirvStartsLoad == ~spirvWasmModule /\ spirvModuleReady = "null"

\* a manifest loop that leaves a file alone once it is in the sandbox
RECURSIVE loadManifest_FirstWins(_, _, _)
loadManifest_FirstWins(files, manifest, k) ==
    IF k > Len(manifest) THEN files
    ELSE LET path == getEmscriptenURI(manifest[k].uri)
         IN  loadManifest_FirstWins(
                 IF path \in DOMAIN files THEN files
                 ELSE loadFileIntoEmscriptenFS(files, path, manifest[k].content),
                 manifest, k + 1)

\* the manifest loop of onInitialize, from file k on
RECURSIVE loadManifest(_, _, _)
loadManifest(files, manifest, k) ==
    IF k > Len(manifest) THEN files
    ELSE loadManifest(
             loadFileIntoEmscriptenFS(files, getEmscriptenURI(manifest[k].uri),
                                      manifest[k].content),
             manifest, k + 1)

\* onInitialize after `await ensureSlangModuleLoaded()` (a rejection is caught
\* and logged): the manifest loop, then the capabilities. It throws a
\* TypeError when there is no payload, no manifest, or a file and no module.
initializeThrows(opts) ==
    \/ ~opts.present
    \/ ~opts.hasFiles
    \/ (Len(opts.files) > 0 /\ ~slangWasmModule)

InitializeFinish(i, opts) ==
    /\ initTasks' = [initTasks EXCEPT ![i] = IF initializeThrows(opts) THEN "threw" ELSE "returned"]
    /\ fs' = IF initializeThrows(opts) THEN fs ELSE loadManifest(fs, opts.files, 1)
    /\ lastOp' = Op("initialize", <<>>,
                    IF initializeThrows(opts) THEN "threw" ELSE "returned",
                    opts.present /\ opts.hasFiles /\ Len(opts.files) > 0 /\ ~slangWasmModule)

\* an initialize request arrives: the payload is kept, the guard is called;
\* the handler suspends on a pending load and otherwise runs to its end
InitializeRequest(i, payload) ==
    /\ NoResumable
    /\ ~opsStarted
    /\ initTasks[i] = "idle"
    /\ \A j \in 1..(i - 1) : initTasks[j] # "idle"
    /\ LET opts == IF payload.present THEN payload ELSE initializationOptions
       IN  /\ initializationOptions' = opts
           /\ lastEnsure' = [called |-> TRUE, wasRejected |-> moduleReady = "rejected",
                             started |-> ensureSlangStartsLoad]
           /\ IF ensureSlangStartsLoad
              THEN /\ createModuleCalls' = Bump(createModuleCalls)
                   /\ moduleReady' = "pending"
                   /\ initTasks' = [initTasks EXCEPT ![i] = "awaiting"]
                   /\ lastOp' = Op("initialize", <<>>, "suspended", FALSE)
                   /\ UNCHANGED fs
              ELSE IF ~slangd /\ moduleReady = "pending"
              THEN /\ initTasks' = [initTasks EXCEPT ![i] = "awaiting"]
                   /\ lastOp' = Op("initialize", <<>>, "suspended", FALSE)
                   /\ UNCHANGED <<createModuleCalls, moduleReady, fs>>
              ELSE /\ InitializeFinish(i, opts)
                   /\ UNCHANGED <<createModuleCalls, moduleReady>>
    /\ UNCHANGED <<slangd, compiler, slangWasmModule, spirvWasmModule, spirvModuleReady,
                   slangdDocs, loadedPlaygroundFiles, playgroundLoads, compileTasks, opsStarted, editor,
                   openDocs, createSpirvModuleCalls>>
    /\ UNCHANGED <<editVars, command>>

\* createModule() resolves: the module, the compiler and the server are set
ModuleLoaded ==
    /\ moduleReady = "pending"
    /\ moduleReady' = "resolved"
    /\ slangWasmModule' = TRUE
    /\ compiler' = TRUE
    /\ slangd' = TRUE
    /\ UNCHANGED <<spirvWasmModule, spirvModuleReady, initializationOptions, fs, slangdDocs,
                   loadedPlaygroundFiles, playgroundLoads, initTasks, compileTasks, opsStarted, editor,
                   openDocs, createModuleCalls, createSpirvModuleCalls, lastEnsure, lastOp>>
    /\ UNCHANGED <<editVars, command>>

\* createModule() rejects: the promise stays rejected, nothing is set
ModuleLoadFailed ==
    /\ moduleReady = "pending"
    /\ moduleReady' = "rejected"
    /\ UNCHANGED <<slangd, compiler, slangWasmModule, spirvWasmModule, spirvModuleReady,
                   initializationOptions, fs, slangdDocs, loadedPlaygroundFiles, playgroundLoads, initTasks,
                   compileTasks, opsStarted, editor, openDocs, createModuleCalls,
                   createSpirvModuleCalls, lastEnsure, lastOp>>
    /\ UNCHANGED <<editVars, command>>

\* a suspended onInitialize continues once the load has settled, oldest first
InitializeResume(i) ==
    /\ initTasks[i] = "awaiting"
    /\ moduleReady \in {"resolved", "rejected"}
    /\ \A j \in 1..(i - 1) : initTasks[j] # "awaiting"
    /\ InitializeFinish(i, initializationOptions)
    /\ UNCHANGED <<slangd, compiler, slangWasmModule, spirvWasmModule, moduleReady,
                   spirvModuleReady, initializationOptions, slangdDocs,
                   loadedPlaygroundFiles, playgroundLoads, compileTasks, opsStarted, editor, openDocs,
                   createModuleCalls, createSpirvModuleCalls, lastEnsure>>
    /\ UNCHANGED <<editVars, command>>

\* how often the support module at a URI has been loaded so far
loadsOf(loads, playgroundURI) ==
    IF playgroundURI \in DOMAIN loads THEN loads[playgroundURI] ELSE 0

\* openPlayground without the lookup in the dedupe set: loaded on every open
openPlayground_NoDedupe(st, wasmURI) ==
    LET playgroundURI == playgroundURIOf(wasmURI)
    IN  [loaded |-> st.loaded \cup {playgroundURI},
         loads  |-> Put(st.loads, playgroundURI, Bump(loadsOf(st.loads, playgroundURI))),
         docs   |-> slangdDidOpen(st.docs, playgroundURI, playgroundSource),
         files  |-> loadFileIntoEmscriptenFS(st.files,
                        removePrefix(playgroundURI, <<SchemeFile>>), playgroundSource)]

\* openPlayground(wasmURI): the support module, once per directory
openPlayground(st, wasmURI) ==
    LET playgroundURI == playgroundURIOf(wasmURI)
    IN  IF playgroundURI \in st.loaded THEN st
        ELSE [loaded |-> st.loaded \cup {playgroundURI},
              loads  |-> Put(st.loads, playgroundURI,
                             Bump(loadsOf(st.loads, playgroundURI))),
              docs   |-> slangdDidOpen(st.docs, playgroundURI, playgroundSource),
              files  |-> loadFileIntoEmscriptenFS(st.files,
                             removePrefix(playgroundURI, <<SchemeFile>>), playgroundSource)]

\* textDocument/didOpen: mirror the text, register it, load the support module
DidOpenTextDocument(uri, text) ==
    /\ ClientReady
    /\ opsStarted' = TRUE
    /\ editor' = Put(editor, uri, text)
    /\ openDocs' = IF slangWasmModule /\ slangd THEN openDocs \cup {uri} ELSE openDocs
    /\ IF ~slangWasmModule
       THEN /\ lastOp' = Op("didOpen", uri, "threw", TRUE)
            /\ UNCHANGED <<fs, slangdDocs, loadedPlaygroundFiles, playgroundLoads>>
       ELSE LET mirrored == loadFileIntoEmscriptenFS(fs, getEmscriptenURI(uri), text)
            IN  IF ~slangd
                THEN /\ fs' = mirrored
                     /\ lastOp' = Op("didOpen", uri, "threw", TRUE)
                     /\ UNCHANGED <<slangdDocs, loadedPlaygroundFiles, playgroundLoads>>
                ELSE LET st == openPlayground(
                                   [loaded |-> loadedPlaygroundFiles,
                                    loads  |-> playgroundLoads,
                                    docs   |-> slangdDidOpen(slangdDocs, getSlangdURI(uri), text),
                                    files  |-> mirrored],
                                   getSlangdURI(uri))
                     IN  /\ fs' = st.files
                         /\ slangdDocs' = st.docs
                         /\ loadedPlaygroundFiles' = st.loaded
                         /\ playgroundLoads' = st.loads
                         /\ lastOp' = Op("didOpen", uri, "returned", FALSE)
    /\ UNCHANGED <<slangd, compiler, slangWasmModule, spirvWasmModule, moduleReady,
                   spirvModuleReady, initializationOptions, initTasks, compileTasks,
                   createModuleCalls, createSpirvModuleCalls, lastEnsure>>
    /\ UNCHANGED <<editVars, command>>

\* the call of the open handler in which the compiler service throws: the
\* registration of the document, or that of the support module
OpenFaults == {"document", "support"}

\* textDocument/didOpen with the compiler service throwing in one of its two
\* didOpenTextDocument calls: what was done before the call stays done, the
\* rest of the handler and of openPlayground is not run
DidOpenTextDocumentFault(uri, text, fault) ==
    /\ ClientReady
    /\ slangWasmModule /\ slangd
    /\ fault = "support" => playgroundURIOf(getSlangdURI(uri)) \notin loadedPlaygroundFiles
    /\ opsStarted' = TRUE
    /\ editor' = Put(editor, uri, text)
    /\ fs' = loadFileIntoEmscriptenFS(fs, getEmscriptenURI(uri), text)
    /\ IF fault = "document"
       THEN UNCHANGED <<slangdDocs, loadedPlaygroundFiles, openDocs>>
       ELSE /\ slangdDocs' = slangdDidOpen(slangdDocs, getSlangdURI(uri), text)
            /\ openDocs' = openDocs \cup {uri}
            /\ loadedPlaygroundFiles' =
                   loadedPlaygroundFiles \cup {playgroundURIOf(getSlangdURI(uri))}
    /\ lastOp' = [Op("didOpen", uri, "threw", FALSE) EXCEPT !.service = "throws"]
    /\ UNCHANGED <<slangd, compiler, slangWasmModule, spirvWasmModule, moduleReady,
                   spirvModuleReady, initializationOptions, playgroundLoads, initTasks,
                   compileTasks, createModuleCalls, createSpirvModuleCalls, lastEnsure>>
    /\ UNCHANGED <<editVars, command>>

\* some change of the batch leaves the text it is applied to
RECURSIVE outOfBounds(_, _)
outOfBounds(text, changes) ==
    IF Len(changes) = 0 \/ text = TypeError THEN FALSE
    ELSE LET c == Head(changes)
         IN  \/ /\ isIncremental(c)
                /\ ~(inBounds(text, c.range.start) /\ inBounds(text, c.range.end))
             \/ outOfBounds(applyIncrementalChange(text, c), Tail(changes))

\* the TextEditList handed to slangd: the incremental changes only
lspChangesOf(changes) == SelectSeq(changes, isIncremental)

\* textDocument/didChange: rewrite the mirrored file, then inside try/catch
\* hand the incremental edits to the service and publish its diagnostics
\* (an empty list when its handle is malformed or anything throws)
DidChangeTextDocument(uri, changes, service) ==
    /\ ClientReady
    /\ opsStarted' = TRUE
    /\ LET path     == getEmscriptenURI(uri)
           modified == IF slangWasmModule THEN modifyEmscriptenFile(fs, path, changes)
                       ELSE [threw |-> TRUE, files |-> fs]
           docs     == IF slangd /\ service # "throws"
                       THEN slangdDidChange(slangdDocs, getSlangdURI(uri), lspChangesOf(changes))
                       ELSE slangdDocs
           shown    == IF uri \notin DOMAIN editor THEN editor
                       ELSE IF wellFormed(editor[uri], changes) /\ service # "throws"
                       THEN Put(editor, uri, lspApplyChanges(editor[uri], changes))
                       ELSE Without(editor, uri)
           base     == [Op("didChange", uri, "returned", ~slangWasmModule) EXCEPT
                           !.oob = path \in DOMAIN fs /\ outOfBounds(fs[path], changes)]
       IN  /\ \A u \in DOMAIN shown : Len(shown[u]) <= MaxDocLen
           /\ \A f \in DOMAIN modified.files : Len(modified.files[f]) <= MaxDocLen
           /\ \A d \in DOMAIN docs : Len(docs[d]) <= MaxDocLen
           /\ editor' = shown
           /\ IF modified.threw
              THEN /\ lastOp' = [base EXCEPT !.outcome = "threw"]   \* nothing published
                   /\ UNCHANGED <<fs, slangdDocs>>
              ELSE /\ fs' = modified.files
                   /\ slangdDocs' = docs
                   /\ lastOp' = [base EXCEPT
                          !.uninit = ~slangd,
                          !.service = IF slangd THEN service ELSE "none",
                          !.published = IF slangd /\ service = "diagnostics"
                                        THEN "list" ELSE "empty",
                          !.publishedTo = uri]
    /\ UNCHANGED <<slangd, compiler, slangWasmModule, spirvWasmModule, moduleReady,
                   spirvModuleReady, initializationOptions, loadedPlaygroundFiles, playgroundLoads,
                   initTasks, compileTasks, openDocs, createModuleCalls,
                   createSpirvModuleCalls, lastEnsure>>
    /\ UNCHANGED <<editVars, command>>

\* textDocument/didClose: only the TextDocuments manager listens for it, and it
\* holds no document, its open and change handlers having been replaced by the
\* two above. Nothing is forwarded to the service; the mirrored file stays.
DidCloseTextDocument(uri) ==
    /\ ClientReady
    /\ uri \in DOMAIN editor
    /\ opsStarted' = TRUE
    /\ editor' = Without(editor, uri)
    /\ openDocs' = openDocs \ {uri}
    /\ lastOp' = Op("didClose", uri, "returned", FALSE)
    /\ UNCHANGED <<slangd, compiler, slangWasmModule, spirvWasmModule, moduleReady,
                   spirvModuleReady, initializationOptions, fs, slangdDocs,
                   loadedPlaygroundFiles, playgroundLoads, initTasks, compileTasks,
                   createModuleCalls, createSpirvModuleCalls, lastEnsure>>
    /\ UNCHANGED <<editVars, command>>

\* a query handler that registers the document it is asked about with the
\* service before it asks
QueryRequest_Registering(query, uri) ==
    /\ ClientReady
    /\ opsStarted' = TRUE
    /\ lastOp' = Op(query, uri, IF slangd THEN "returned" ELSE "threw", ~slangd)
    /\ slangdDocs' = IF slangd THEN slangdDidOpen(slangdDocs, getSlangdURI(uri), <<>>)
                     ELSE slangdDocs
    /\ UNCHANGED <<slangd, compiler, slangWasmModule, spirvWasmModule, moduleReady,
                   spirvModuleReady, initializationOptions, fs,
                   loadedPlaygroundFiles, playgroundLoads, initTasks, compileTasks, editor, openDocs,
                   createModuleCalls, createSpirvModuleCalls, lastEnsure>>
    /\ UNCHANGED <<editVars, command>>

\* completion, hover, definition, signature help, document symbols: one call
\* of the service at the translated URI, the answer translated back
QueryRequest(query, uri) ==
    /\ ClientReady
    /\ opsStarted' = TRUE
    /\ lastOp' = Op(query, uri, IF slangd THEN "returned" ELSE "threw", ~slangd)
    /\ UNCHANGED <<slangd, compiler, slangWasmModule, spirvWasmModule, moduleReady,
                   spirvModuleReady, initializationOptions, fs, slangdDocs,
                   loadedPlaygroundFiles, playgroundLoads, initTasks, compileTasks, editor, openDocs,
                   createModuleCalls, createSpirvModuleCalls, lastEnsure>>
    /\ UNCHANGED <<editVars, command>>

\* the message of a failed disassembly
SpirvFailureMessage == "Failed to get spirv string representation"
\* the message of the compiler's own failure result
CompilerMessage == "compiler message"

\* `compiler.compile(params.sourceCode, path, params.entrypoint, params.target,
\* params.noWebGPU)`: the result object, made from these arguments
compilationOf(params, compiled) == [succ |-> compiled, from |-> params]

\* the compiler's failure result, returned as it is
compileFailed(params, compilation) ==
    [Op("compile", params.shaderPath, "returned", FALSE) EXCEPT
        !.request = params, !.of = compilation.from,
        !.response = "compileFailure", !.message = CompilerMessage]

\* the compiler's success result passed through the disassembler whatever
\* the target
compileSucceeded_Disassembled(params, compilation) ==
    [Op("compile", params.shaderPath, "returned", FALSE) EXCEPT
        !.request = params, !.of = compilation.from,
        !.response = "success", !.dis = "text", !.code = "text"]

\* the compiler's success result, returned as it is
compileSucceeded(params, compilation) ==
    [Op("compile", params.shaderPath, "returned", FALSE) EXCEPT
        !.request = params, !.of = compilation.from,
        !.response = "success", !.code = "raw"]

\* the handler ends with an exception; `uninit`: it used the unset compiler
compileThrew(params, uninit) ==
    [Op("compile", params.shaderPath, "threw", uninit) EXCEPT !.request = params]

\* the handler waits for the disassembler module
compileSuspended(params) ==
    [Op("compile", params.shaderPath, "suspended", FALSE) EXCEPT !.request = params]

\* the disassembler's answer put into the code field without the test for
\* "Error"
compileDisassembled_IgnoreError(params, compilation, disassembled) ==
    [Op("compile", params.shaderPath, "returned", FALSE) EXCEPT
        !.request = params, !.of = compilation.from,
        !.response = "success",
        !.dis = IF disassembled THEN "text" ELSE "Error",
        !.code = IF disassembled THEN "text" ELSE "Error"]

\* slang/compile from `spirvWasmModule.dis(compilation.code, ...)` on
compileDisassembled(params, compilation, disassembled) ==
    [Op("compile", params.shaderPath, "returned", FALSE) EXCEPT
        !.request = params, !.of = compilation.from,
        !.response = IF disassembled THEN "success" ELSE "spirvFailure",
        !.dis = IF disassembled THEN "text" ELSE "Error",
        !.code = IF disassembled THEN "text" ELSE "none",
        !.message = IF disassembled THEN "" ELSE SpirvFailureMessage]

\* the disassembly step left out of a request that sets noWebGPU
needsDisassembly_UnlessNoWebGPU(params) == params.target = "SPIRV" /\ ~params.noWebGPU

\* `if(params.target === "SPIRV")`
needsDisassembly(params) == params.target = "SPIRV"

\* a handler that waits for the disassembler: its request and its own
\* `compilation`
AwaitingTask(params, compilation) ==
    [pc |-> "awaiting", params |-> params, compilation |-> compilation]

\* `compilation` read after the await as if it were one variable shared by
\* all calls: the value the handler that started last left in it
resumedCompilation_Shared(c, tasks) ==
    LET waiting == {d \in DOMAIN tasks : tasks[d].pc = "awaiting"}
        last    == CHOOSE d \in waiting : \A e \in waiting : e <= d
    IN  tasks[last].compilation

\* `compilation` read after the await: the local variable of this call
resumedCompilation(c, tasks) == tasks[c].compilation

\* slang/compile arrives: compile; for SPIRV call the disassembler guard and
\* suspend on a pending load, else answer
compileHandler(c, params, compiled, disassembled) ==
    /\ ClientReady
    /\ opsStarted' = TRUE
    /\ compileTasks[c].pc = "idle"
    /\ \A j \in 1..(c - 1) : compileTasks[j].pc # "idle"
    /\ LET compilation == compilationOf(params, compiled)
       IN  IF ~compiler
           THEN /\ lastOp' = compileThrew(params, TRUE)
                /\ UNCHANGED <<compileTasks, spirvModuleReady, createSpirvModuleCalls>>
           ELSE IF compilation.succ = FALSE
           THEN /\ lastOp' = compileFailed(params, compilation)
                /\ UNCHANGED <<compileTasks, spirvModuleReady, createSpirvModuleCalls>>
           ELSE IF ~needsDisassembly(params)
           THEN /\ lastOp' = compileSucceeded(params, compilation)
                /\ UNCHANGED <<compileTasks, spirvModuleReady, createSpirvModuleCalls>>
           ELSE IF ensureSpirvStartsLoad
           THEN /\ createSpirvModuleCalls' = Bump(createSpirvModuleCalls)
                /\ spirvModuleReady' = "pending"
                /\ compileTasks' = [compileTasks EXCEPT ![c] = AwaitingTask(params, compilation)]
                /\ lastOp' = compileSuspended(params)
           ELSE IF ~spirvWasmModule /\ spirvModuleReady = "pending"
           THEN /\ compileTasks' = [compileTasks EXCEPT ![c] = AwaitingTask(params, compilation)]
                /\ lastOp' = compileSuspended(params)
                /\ UNCHANGED <<spirvModuleReady, createSpirvModuleCalls>>
           ELSE IF ~spirvWasmModule
           THEN /\ lastOp' = compileThrew(params, FALSE)   \* the rejected promise
                /\ UNCHANGED <<compileTasks, spirvModuleReady, createSpirvModuleCalls>>
           ELSE /\ lastOp' = compileDisassembled(params, compilation, disassembled)
                /\ UNCHANGED <<compileTasks, spirvModuleReady, createSpirvModuleCalls>>
    /\ UNCHANGED <<slangd, compiler, slangWasmModule, spirvWasmModule, moduleReady,
                   initializationOptions, fs, slangdDocs, loadedPlaygroundFiles, playgroundLoads, initTasks,
                   editor, openDocs, createModuleCalls, lastEnsure>>

\* a slang/compile request that no command of this client is waiting for
CompileRequest(c, params, compiled, disassembled) ==
    /\ compileHandler(c, params, compiled, disassembled)
    /\ UNCHANGED <<editVars, command>>

\* createSpirvModule() resolves
SpirvModuleLoaded ==
    /\ spirvModuleReady = "pending"
    /\ spirvModuleReady' = "resolved"
    /\ spirvWasmModule' = TRUE
    /\ UNCHANGED <<slangd, compiler, slangWasmModule, moduleReady, initializationOptions, fs,
                   slangdDocs, loadedPlaygroundFiles, playgroundLoads, initTasks, compileTasks, opsStarted,
                   editor, openDocs, createModuleCalls, createSpirvModuleCalls, lastEnsure,
                   lastOp>>
    /\ UNCHANGED <<editVars, command>>

\* createSpirvModule() rejects
SpirvModuleLoadFailed ==
    /\ spirvModuleReady = "pending"
    /\ spirvModuleReady' = "rejected"
    /\ UNCHANGED <<slangd, compiler, slangWasmModule, spirvWasmModule, moduleReady,
                   initializationOptions, fs, slangdDocs, loadedPlaygroundFiles, playgroundLoads, initTasks,
                   compileTasks, opsStarted, editor, openDocs, createModuleCalls,
                   createSpirvModuleCalls, lastEnsure, lastOp>>
    /\ UNCHANGED <<editVars, command>>

\* a suspended slang/compile continues once the disassembler load has settled
CompileResume(c, disassembled) ==
    /\ compileTasks[c].pc = "awaiting"
    /\ spirvModuleReady \in {"resolved", "rejected"}
    /\ \A j \in 1..(c - 1) : compileTasks[j].pc # "awaiting"
    /\ compileTasks' = [compileTasks EXCEPT ![c] = IdleTask]
    /\ lastOp' = [(IF spirvModuleReady = "rejected"
                   THEN compileThrew(compileTasks[c].params, FALSE)
                   ELSE compileDisassembled(compileTasks[c].params,
                                            resumedCompilation(c, compileTasks), disassembled))
                     EXCEPT !.resumed = TRUE]
    /\ UNCHANGED <<slangd, compiler, slangWasmModule, spirvWasmModule, moduleReady,
                   spirvModuleReady, initializationOptions, fs, slangdDocs,
                   loadedPlaygroundFiles, playgroundLoads, initTasks, opsStarted, editor, openDocs,
                   createModuleCalls, createSpirvModuleCalls, lastEnsure>>
    /\ UNCHANGED <<editVars, command>>

\* ---------------------------------------------------- the client's commands
\* the targets of the slang.compile command
compileOptions == {"SPIRV", "HLSL", "GLSL", "METAL", "WGSL", "CUDA"}

\* a target table in which no target asks for an entry point
requiresEntrypoint_Never(target) == FALSE

\* compileOptionMap[target].requiresEntrypoint
requiresEntrypoint(target) == target \in {"HLSL", "GLSL", "CUDA"}

\* what findDefinedEntryPoints finds in the source: nothing, one name, two
EntrypointLists == {<<>>, <<"main">>, <<"main", "other">>}

\* the text of the active editor
userSource == <<"a">>

\* showQuickPick resolves to undefined when the prompt is dismissed
Dismissed == "undefined"

\* what checkShaderType finds in the source
ShaderTypes == {"null", "imageMain", "printMain"}

\* reflection metadata of a compiled program: a bound parameter with the user
\* attribute it carries (recognized, none, or one with wrong arguments) and
\* an entry point with its dispatch attribute (none, a literal extent, the
\* size of a named resource, or one with wrong arguments)
Reflections ==
    {[parameters |-> ps, entryPoints |-> es] :
        ps \in {<<>>} \cup {<<[name |-> "buf", attribute |-> a]>> :
                              a \in {"recognized", "none", "malformed"}},
        es \in {<<>>} \cup {<<[name |-> "imageMain", call |-> k, resourceName |-> "buf"]>> :
                              k \in {"none", "literal", "sizeOf", "malformed"}}}

\* one resource command per parameter that carries a recognized attribute; a
\* parameter without one, or with wrong arguments, is an error
getResourceCommandsFromAttributes(reflection) ==
    IF \E k \in 1..Len(reflection.parameters) :
            reflection.parameters[k].attribute # "recognized"
    THEN [succ |-> FALSE, result |-> <<>>]
    ELSE [succ |-> TRUE, result |-> reflection.parameters]

\* one call command per entry point that carries a dispatch attribute; its
\* extent is a literal or the name of a resource, recorded and not resolved;
\* wrong arguments are an error
parseCallCommands(reflection) ==
    IF \E k \in 1..Len(reflection.entryPoints) :
            reflection.entryPoints[k].call = "malformed"
    THEN [succ |-> FALSE, result |-> <<>>]
    ELSE [succ |-> TRUE,
          result |-> SelectSeq(reflection.entryPoints,
                               LAMBDA e : e.call \in {"literal", "sizeOf"})]

\* slang/entrypoints: findDefinedEntryPoints of the compiler at the
\* translated path
entrypointsHandler(uri) ==
    /\ ClientReady
    /\ opsStarted' = TRUE
    /\ lastOp' = Op("entrypoints", uri, IF compiler THEN "returned" ELSE "threw", ~compiler)
    /\ UNCHANGED <<slangd, compiler, slangWasmModule, spirvWasmModule, moduleReady,
                   spirvModuleReady, initializationOptions, fs, slangdDocs,
                   loadedPlaygroundFiles, playgroundLoads, initTasks, compileTasks, editor,
                   openDocs, createModuleCalls, createSpirvModuleCalls, lastEnsure>>

\* what a command sees of the answer to its compile request
responseOf(answer) == IF answer.outcome = "threw" THEN "threw" ELSE answer.response

\* slang.compile is invoked: the target prompt is shown
CompileCommand ==
    /\ ClientReady
    /\ command.pc = "idle"
    /\ command' = [NoCommand EXCEPT !.kind = "compile", !.pc = "pickTarget"]
    /\ UNCHANGED serverVars
    /\ UNCHANGED editVars

\* the target prompt is answered: dismissed, or a target that needs an entry
\* point (slang/entrypoints is sent and answered, the second prompt shown), or
\* another target (slang/compile is sent with an empty entry point)
TargetPicked(targetSelection, found, c, compiled, disassembled) ==
    /\ command.pc = "pickTarget"
    /\ IF targetSelection = Dismissed
       THEN /\ command' = [command EXCEPT !.pc = "idle", !.outcome = "dismissed"]
            /\ UNCHANGED serverVars
       ELSE IF requiresEntrypoint(targetSelection)
       THEN /\ entrypointsHandler(UriShader)
            /\ command' = IF compiler
                          THEN [command EXCEPT !.pc = "pickEntrypoint",
                                               !.target = targetSelection,
                                               !.discovery = "answered",
                                               !.entrypoints = found]
                          ELSE [command EXCEPT !.pc = "idle",
                                               !.target = targetSelection,
                                               !.discovery = "threw",
                                               !.outcome = "rejected"]
       ELSE LET params == CompileParams(UriShader, userSource, "", targetSelection, TRUE)
            IN  /\ compileHandler(c, params, compiled, disassembled)
                /\ command' = [command EXCEPT !.pc = "awaitCompile",
                                              !.target = targetSelection,
                                              !.sent = params]
    /\ UNCHANGED editVars

\* the entry point prompt is answered: dismissed, or one of the names found
\* (slang/compile is sent with it)
EntrypointPicked(entrypointSelection, c, compiled, disassembled) ==
    /\ command.pc = "pickEntrypoint"
    /\ IF entrypointSelection = Dismissed
       THEN /\ command' = [command EXCEPT !.pc = "idle", !.outcome = "dismissed"]
            /\ UNCHANGED serverVars
       ELSE LET params == CompileParams(UriShader, userSource, entrypointSelection,
                                        command.target, TRUE)
            IN  /\ \E k \in 1..Len(command.entrypoints) :
                       command.entrypoints[k] = entrypointSelection
                /\ compileHandler(c, params, compiled, disassembled)
                /\ command' = [command EXCEPT !.pc = "awaitCompile",
                                              !.selected = entrypointSelection,
                                              !.sent = params]
    /\ UNCHANGED editVars

\* slang.compile gets the answer to its request: the code is shown in a
\* read-only document, or the failure message is
CompileCommandResult ==
    /\ command.kind = "compile"
    /\ command.pc = "awaitCompile"
    /\ lastOp.kind = "compile"
    /\ lastOp.request = command.sent
    /\ lastOp.outcome # "suspended"
    /\ command' = [command EXCEPT
                       !.pc = "idle",
                       !.response = responseOf(lastOp),
                       !.outcome = IF lastOp.outcome = "threw" THEN "rejected"
                                   ELSE IF lastOp.response = "success" THEN "shown"
                                   ELSE "error"]
    /\ UNCHANGED serverVars
    /\ UNCHANGED editVars

\* a reflection command that reads the reflection as playgroundRun does and
\* shows an error when that fails
reflectionOutcome_Interpreted(answer, reflection) ==
    IF answer.outcome = "threw" THEN "rejected"
    ELSE IF answer.response # "success" THEN "error"
    ELSE IF ~getResourceCommandsFromAttributes(reflection).succ THEN "error"
    ELSE IF Len(parseCallCommands(reflection).result) = 0 THEN "error"
    ELSE "shown"

\* slang.reflection after the answer: the failure message, or the reflection
\* as JSON in a read-only document
reflectionOutcome(answer, reflection) ==
    IF answer.outcome = "threw" THEN "rejected"
    ELSE IF answer.response # "success" THEN "error"
    ELSE "shown"

\* slang.reflection: compile for WGSL with noWebGPU, show the reflection
ReflectionCommand(c, compiled, reflection) ==
    /\ command.pc = "idle"
    /\ LET params == CompileParams(UriShader, userSource, "", "WGSL", TRUE)
       IN  /\ compileHandler(c, params, compiled, FALSE)
           /\ command' = [NoCommand EXCEPT
                              !.kind = "reflection",
                              !.target = "WGSL",
                              !.sent = params,
                              !.response = responseOf(lastOp'),
                              !.reflection = IF lastOp'.response = "success"
                                             THEN reflection ELSE NoReflection,
                              !.outcome = reflectionOutcome(lastOp', reflection)]
    /\ UNCHANGED editVars

\* slang.playgroundRun after the answer: an error message when the compile
\* or either reading of the reflection failed, else the plan is posted to the
\* webview
playgroundRunOutcome(answer, reflection) ==
    LET resourceCommandsResult == getResourceCommandsFromAttributes(reflection)
        callCommandResult      == parseCallCommands(reflection)
    IN  IF answer.outcome = "threw" THEN [outcome |-> "rejected", plan |-> NoPlan]
        ELSE IF answer.response # "success" THEN [outcome |-> "error", plan |-> NoPlan]
        ELSE IF resourceCommandsResult.succ = FALSE THEN [outcome |-> "error", plan |-> NoPlan]
        ELSE IF callCommandResult.succ = FALSE THEN [outcome |-> "error", plan |-> NoPlan]
        ELSE [outcome |-> "handedOff",
              plan |-> [callCommands |-> callCommandResult.result,
                        resourceCommands |-> resourceCommandsResult.result]]

\* slang.playgroundRun: without imageMain or printMain an error message; else
\* compile for WGSL with that entry point and hand the plan to the webview
PlaygroundRun(shaderType, c, compiled, reflection) ==
    /\ command.pc = "idle"
    /\ IF shaderType = "null"
       THEN /\ command' = [NoCommand EXCEPT !.kind = "playgroundRun", !.outcome = "error"]
            /\ UNCHANGED serverVars
       ELSE LET params == CompileParams(UriShader, userSource, shaderType, "WGSL", FALSE)
            IN  /\ compileHandler(c, params, compiled, FALSE)
                /\ LET run == playgroundRunOutcome(lastOp', reflection)
                   IN  command' = [NoCommand EXCEPT
                                       !.kind = "playgroundRun",
                                       !.target = "WGSL",
                                       !.sent = params,
                                       !.response = responseOf(lastOp'),
                                       !.reflection = IF lastOp'.response = "success"
                                                      THEN reflection ELSE NoReflection,
                                       !.outcome = run.outcome,
                                       !.plan = run.plan]
    /\ UNCHANGED editVars

\* ------------------------------------------------------- the specification
\* no URI is being translated
NoTranslation == [emscripten |-> <<>>, slangd |-> <<>>, editor |-> <<>>]
UriOff == tUri = <<>> /\ tOut = NoTranslation /\ tPc = "off"

Init ==
    /\ ServiceInit
    /\ eText = <<>>
    /\ eChange = FullChange(<<>>)
    /\ eBatch = <<>>
    /\ eResult = <<>>
    /\ eWrites = <<>>
    /\ ePc = "off"
    /\ UriOff

Next ==
    \/ \E i \in 1..MaxInitCalls, payload \in InitPayloads : InitializeRequest(i, payload)
    \/ ModuleLoaded
    \/ ModuleLoadFailed
    \/ \E i \in 1..MaxInitCalls : InitializeResume(i)
    \/ \E uri \in EditorURIs, text \in OpenTexts : DidOpenTextDocument(uri, text)
    \/ \E uri \in EditorURIs, changes \in SyncBatches, service \in ServiceOutcomes :
           DidChangeTextDocument(uri, changes, service)
    \/ \E uri \in EditorURIs : DidCloseTextDocument(uri)
    \/ \E query \in Queries, uri \in EditorURIs : QueryRequest(query, uri)
    \/ \E c \in 1..MaxCompiles, params \in GuardRequests,
          compiled \in BOOLEAN, disassembled \in BOOLEAN :
           CompileRequest(c, params, compiled, disassembled)
    \/ SpirvModuleLoaded
    \/ SpirvModuleLoadFailed
    \/ \E c \in 1..MaxCompiles, disassembled \in BOOLEAN : CompileResume(c, disassembled)

Spec == Init /\ [][Next]_vars

\* the document synchronizer under a client that initializes once and then
\* sends document notifications
NextSync ==
    \/ \E payload \in SyncPayloads : InitializeRequest(1, payload)
    \/ ModuleLoaded
    \/ ModuleLoadFailed
    \/ InitializeResume(1)
    \/ \E uri \in EditorURIs, text \in OpenTexts : DidOpenTextDocument(uri, text)
    \/ \E uri \in EditorURIs, changes \in SyncBatches, service \in SyncOutcomes :
           DidChangeTextDocument(uri, changes, service)

SpecSync == Init /\ [][NextSync]_vars

\* the same with one document in the editor
NextDoc ==
    \/ \E payload \in InitPayloads : InitializeRequest(1, payload)
    \/ ModuleLoaded
    \/ ModuleLoadFailed
    \/ InitializeResume(1)
    \/ \E text \in OpenTexts : DidOpenTextDocument(UriShader, text)
    \/ \E changes \in SyncBatches, service \in ServiceOutcomes :
           DidChangeTextDocument(UriShader, changes, service)

SpecDoc == Init /\ [][NextDoc]_vars

\* documents of two directories being opened and reopened
NextOpen ==
    \/ \E payload \in InitPayloads : InitializeRequest(1, payload)
    \/ ModuleLoaded
    \/ ModuleLoadFailed
    \/ InitializeResume(1)
    \/ \E uri \in OpenURIs, text \in OpenTexts : DidOpenTextDocument(uri, text)

SpecOpen == Init /\ [][NextOpen]_vars

\* documents being opened while the compiler service may throw
NextOpenFault ==
    \/ NextOpen
    \/ \E uri \in OpenURIs, text \in OpenTexts, fault \in OpenFaults :
           DidOpenTextDocumentFault(uri, text, fault)

SpecOpenFault == Init /\ [][NextOpenFault]_vars

\* the initialization guards under repeated initialize requests, queries and
\* compile requests
NextGuards ==
    \/ \E i \in 1..MaxInitCalls, payload \in InitPayloads : InitializeRequest(i, payload)
    \/ ModuleLoaded
    \/ ModuleLoadFailed
    \/ \E i \in 1..MaxInitCalls : InitializeResume(i)
    \/ \E uri \in EditorURIs, text \in OpenTexts : DidOpenTextDocument(uri, text)
    \/ \E query \in Queries, uri \in EditorURIs : QueryRequest(query, uri)
    \/ \E c \in 1..MaxCompiles, params \in GuardRequests,
          compiled \in BOOLEAN, disassembled \in BOOLEAN :
           CompileRequest(c, params, compiled, disassembled)
    \/ SpirvModuleLoaded
    \/ SpirvModuleLoadFailed
    \/ \E c \in 1..MaxCompiles, disassembled \in BOOLEAN : CompileResume(c, disassembled)

SpecGuards == Init /\ [][NextGuards]_vars

\* the life of one document: opened, changed, closed and reopened, with
\* queries and compile requests in between
NextLifecycle ==
    \/ \E payload \in SyncPayloads : InitializeRequest(1, payload)
    \/ ModuleLoaded
    \/ ModuleLoadFailed
    \/ InitializeResume(1)
    \/ \E text \in OpenTexts : DidOpenTextDocument(UriShader, text)
    \/ \E changes \in SyncBatches, service \in SyncOutcomes :
           DidChangeTextDocument(UriShader, changes, service)
    \/ DidCloseTextDocument(UriShader)
    \/ \E query \in Queries : QueryRequest(query, UriShader)
    \/ \E c \in 1..MaxCompiles, params \in GuardRequests,
          compiled \in BOOLEAN, disassembled \in BOOLEAN :
           CompileRequest(c, params, compiled, disassembled)
    \/ SpirvModuleLoaded
    \/ SpirvModuleLoadFailed
    \/ \E c \in 1..MaxCompiles, disassembled \in BOOLEAN : CompileResume(c, disassembled)

SpecLifecycle == Init /\ [][NextLifecycle]_vars

\* the client's commands, one at a time, against the server
NextCommand ==
    \/ \E payload \in SyncPayloads : InitializeRequest(1, payload)
    \/ ModuleLoaded
    \/ ModuleLoadFailed
    \/ InitializeResume(1)
    \/ CompileCommand
    \/ \E targetSelection \in compileOptions \cup {Dismissed}, found \in EntrypointLists,
          c \in 1..MaxCompiles, compiled \in BOOLEAN, disassembled \in BOOLEAN :
           TargetPicked(targetSelection, found, c, compiled, disassembled)
    \/ \E entrypointSelection \in {"main", "other", Dismissed},
          c \in 1..MaxCompiles, compiled \in BOOLEAN, disassembled \in BOOLEAN :
           EntrypointPicked(entrypointSelection, c, compiled, disassembled)
    \/ CompileCommandResult
    \/ \E c \in 1..MaxCompiles, compiled \in BOOLEAN, reflection \in Reflections :
           ReflectionCommand(c, compiled, reflection)
    \/ \E shaderType \in ShaderTypes, c \in 1..MaxCompiles,
          compiled \in BOOLEAN, reflection \in Reflections :
           PlaygroundRun(shaderType, c, compiled, reflection)
    \/ SpirvModuleLoaded
    \/ SpirvModuleLoadFailed
    \/ \E c \in 1..MaxCompiles, disassembled \in BOOLEAN : CompileResume(c, disassembled)

SpecCommand == Init /\ [][NextCommand]_vars

\* the compile pipeline: one initialize with a manifest, then compile
\* requests that may overlap while the disassembler loads
NextCompile ==
    \/ \E payload \in ManifestPayloads : InitializeRequest(1, payload)
    \/ ModuleLoaded
    \/ ModuleLoadFailed
    \/ InitializeResume(1)
    \/ \E c \in 1..MaxCompiles, params \in CompileRequests,
          compiled \in BOOLEAN, disassembled \in BOOLEAN :
           CompileRequest(c, params, compiled, disassembled)
    \/ SpirvModuleLoaded
    \/ SpirvModuleLoadFailed
    \/ \E c \in 1..MaxCompiles, disassembled \in BOOLEAN : CompileResume(c, disassembled)

SpecCompile == Init /\ [][NextCompile]_vars

\* --------------------------------------------- the edit function on its own
Texts == SeqsUpTo(Chars, MaxLen)
Positions == {Pos(l, c) : l \in 0..MaxPos, c \in 0..MaxPos}
\* new texts: empty, one character, a line break, several lines
NewTexts == {<<>>, <<"b">>, <<NL>>, <<"b", NL, "a">>}
RangedChanges == {[range |-> [start |-> s, end |-> e], text |-> t] :
                    s \in Positions, e \in Positions, t \in NewTexts}
FullChanges == {FullChange(t) : t \in NewTexts}
\* the batches of the edit function: overlapping insertions and deletions, a
\* replacement across a line break, a position past the end, a full-text change
BatchChanges == {
    RangedChange(0, 0, 0, 0, <<"b">>),
    RangedChange(0, 0, 0, 1, <<>>),
    RangedChange(0, 1, 0, 1, <<NL>>),
    RangedChange(0, 1, 1, 0, <<"a">>),
    RangedChange(1, 0, 1, 1, <<"b", NL>>),
    RangedChange(MaxPos, 0, MaxPos, 0, <<"a">>),
    FullChange(<<"a", NL>>) }
EditBatches == BatchesUpTo(BatchChanges, MaxBatch)

EditPath == <<"ws/", "a.slang">>

EditInit ==
    /\ ServiceInit
    /\ eText \in Texts
    /\ eChange = FullChange(<<>>)
    /\ eBatch = <<>>
    /\ eResult = <<>>
    /\ eWrites = <<>>
    /\ ePc = "input"
    /\ UriOff

\* applyIncrementalChange on a change that carries a range
ApplyRanged ==
    /\ ePc = "input"
    /\ \E change \in RangedChanges :
        /\ eChange' = change
        /\ eResult' = applyIncrementalChange(eText, change)
    /\ ePc' = "applied"
    /\ UNCHANGED <<eText, eBatch, eWrites>>
    /\ UNCHANGED uriVars
    /\ UNCHANGED serviceVars

\* applyIncrementalChange on a change without a range
ApplyFull ==
    /\ ePc = "input"
    /\ \E change \in FullChanges :
        /\ eChange' = change
        /\ eResult' = applyIncrementalChange(eText, change)
    /\ ePc' = "applied"
    /\ UNCHANGED <<eText, eBatch, eWrites>>
    /\ UNCHANGED uriVars
    /\ UNCHANGED serviceVars

\* modifyEmscriptenFile on a mirror that holds the text at one path
ModifyBatch ==
    /\ ePc = "input"
    /\ \E batch \in EditBatches :
        /\ eBatch' = batch
        /\ LET modified == modifyEmscriptenFile(Put(NoFiles, EditPath, eText),
                                                EditPath, batch)
           IN  /\ eResult' = modified.files[EditPath]
               /\ eWrites' = modified.writes
    /\ ePc' = "modified"
    /\ UNCHANGED <<eText, eChange>>
    /\ UNCHANGED uriVars
    /\ UNCHANGED serviceVars

EditNext == ApplyRanged \/ ApplyFull \/ ModifyBatch

SpecEdit == EditInit /\ [][EditNext]_vars

\* ------------------------------------- the address translation on its own
\* a URI is a sequence of these: the scheme prefixes, two directories, a
\* leading character "0" of a path, a file name
UriTokens == {SchemeWeb, SchemeFile, SchemeVfs, "ws/", "lib/", "0", "a.slang"}
InputURIs == SeqsUpTo(UriTokens, MaxUriLen) \ {<<>>}

\* the workspace roots of the payload: none; one; a root and a directory in
\* it; a root whose name begins with "0"
WorkspaceRootLists == {
    <<>>,
    <<<<"ws/">>>>,
    <<<<"ws/">>, <<"ws/", "lib/">>>>,
    <<<<"0", "ws/">>>> }

UriInit ==
    /\ \E roots \in WorkspaceRootLists :
          ServiceInitWith([Payload(TRUE, <<>>) EXCEPT !.workspaceUris = roots])
    /\ eText = <<>>
    /\ eChange = FullChange(<<>>)
    /\ eBatch = <<>>
    /\ eResult = <<>>
    /\ eWrites = <<>>
    /\ ePc = "off"
    /\ tUri \in InputURIs
    /\ tOut = NoTranslation
    /\ tPc = "input"

\* an outbound call: getEmscriptenURI and getSlangdURI on the editor's URI
TranslateOut ==
    /\ tPc = "input"
    /\ tOut' = [tOut EXCEPT !.emscripten = getEmscriptenURI(tUri),
                            !.slangd = getSlangdURI(tUri)]
    /\ tPc' = "sandbox"
    /\ UNCHANGED <<tUri, eText, eChange, eBatch, eResult, eWrites, ePc>>
    /\ UNCHANGED serviceVars

\* an inbound location: vscodeURIFromSlangdURI on the sandbox URI
TranslateBack ==
    /\ tPc = "sandbox"
    /\ tOut' = [tOut EXCEPT !.editor = vscodeURIFromSlangdURI(tOut.slangd)]
    /\ tPc' = "editor"
    /\ UNCHANGED <<tUri, eText, eChange, eBatch, eResult, eWrites, ePc>>
    /\ UNCHANGED serviceVars

UriNext == TranslateOut \/ TranslateBack

SpecUri == UriInit /\ [][UriNext]_vars

\* ------------------------------------------------------------------ claims
\* the documents whose didOpen handler has returned and whose every change
\* since was well formed and accepted by the service
tracked == (DOMAIN editor) \cap openDocs

\* C1: after any sequence of open and change notifications for a document,
\* change batches with a full-text edit included, the text the compiler
\* service holds for it equals the mirrored file at its sandbox path.
C1_CompilerTextEqualsMirror ==
    \A uri \in tracked : slangdDocs[getSlangdURI(uri)] = fs[getEmscriptenURI(uri)]

eRanged == ePc = "applied" /\ isIncremental(eChange)
eValid ==
    /\ eRanged
    /\ inBounds(eText, eChange.range.start)
    /\ inBounds(eText, eChange.range.end)
    /\ notAfter(eChange.range.start, eChange.range.end)

\* C2: for a ranged edit whose start and end lie inside the text, start not
\* after end, applyIncrementalChange returns the text before the start
\* position, then the new text, then the text from the end position on; and
\* "abc\ndef" with (1,1)-(1,2) replaced by "X" gives "abc\ndXf".
C2_RangedEditSplices ==
    /\ eValid =>
         eResult = textBefore(eText, eChange.range.start) \o eChange.text
                     \o textFrom(eText, eChange.range.end)
    /\ applyIncrementalChange(<<"a", "b", "c", NL, "d", "e", "f">>,
                              RangedChange(1, 1, 1, 2, <<"X">>))
         = <<"a", "b", "c", NL, "d", "X", "f">>

\* a multi-line replacement across two lines of the text
C2_Witness ==
    /\ eValid
    /\ eChange.range.start.line < eChange.range.end.line
    /\ eChange.range.start.character > 0
    /\ Len(split(eChange.text)) > 1
    /\ Len(textFrom(eText, eChange.range.end)) > 0

\* the mirror after one change notification per edit, in array order
RECURSIVE oneByOne(_, _, _)
oneByOne(files, uri, changes) ==
    IF Len(changes) = 0 THEN files
    ELSE oneByOne(modifyEmscriptenFile(files, uri, <<Head(changes)>>).files,
                  uri, Tail(changes))

\* C3: a change notification with edits e1..en leaves the mirrored file equal
\* to the previous content with e1..en applied one after another in array
\* order, which is what n single-edit notifications leave.
C3_BatchAppliedInOrder ==
    ePc = "modified" =>
        /\ eResult = oneByOne(Put(NoFiles, EditPath, eText), EditPath, eBatch)[EditPath]
        /\ Len(eBatch) = 2 =>
             eResult = applyIncrementalChange(
                           applyIncrementalChange(eText, eBatch[1]), eBatch[2])

\* two ranged edits in one batch whose order matters
C3_Witness ==
    /\ ePc = "modified"
    /\ Len(eBatch) = 2
    /\ isIncremental(eBatch[1]) /\ isIncremental(eBatch[2])
    /\ eResult # applyChangesReversed(eText, eBatch)

\* C4: changes for one document are applied in arrival order, none dropped:
\* after each change handler the mirrored content is the opened text with
\* the changes received so far applied in sequence.
C4_ChangesAppliedInArrivalOrder ==
    (lastOp.kind = "didChange" /\ lastOp.uri \in tracked) =>
        /\ lastOp.outcome = "returned"
        /\ fs[getEmscriptenURI(lastOp.uri)] = editor[lastOp.uri]

\* C5: an edit without a range replaces the whole document by its text,
\* whatever the content was, and applying it twice gives what applying it
\* once gives.
C5_FullEditReplacesIdempotent ==
    (ePc = "applied" /\ ~isIncremental(eChange)) =>
        /\ eResult = eChange.text
        /\ applyIncrementalChange(eResult, eChange) = eResult

C5_Witness ==
    /\ ePc = "applied" /\ ~isIncremental(eChange)
    /\ eText # <<>> /\ eChange.text # <<>> /\ eText # eChange.text

\* a change handler has just run, for a mirrored document, on a batch with an
\* edit outside the buffer it met
oobChangeHandled == lastOp.kind = "didChange" /\ lastOp.oob

\* C6: for an opened document a change whose range falls outside the buffer
\* never makes the change handler throw, and the service goes on: the
\* modules stay set and the notification handled next for an opened
\* document returns as well.
C6_OutOfBoundsChangeNeverThrows ==
    /\ [](oobChangeHandled =>
            lastOp.outcome = "returned" /\ slangWasmModule /\ slangd)
    /\ [][(oobChangeHandled /\ lastOp'.kind \in {"didOpen", "didChange"}
             /\ lastOp'.uri \in openDocs')
            => lastOp'.outcome = "returned"]_vars

\* an opened document has taken an edit past its end
C6_Witness ==
    /\ oobChangeHandled
    /\ lastOp.uri \in openDocs
    /\ lastOp.outcome = "returned"

\* the edit with both positions moved to the nearest valid position
clampedChange(text, change) ==
    [range |-> [start |-> clampPosition(text, change.range.start),
                end   |-> clampPosition(text, change.range.end)],
     text |-> change.text]

eOutOfBounds ==
    /\ eRanged
    /\ notAfter(eChange.range.start, eChange.range.end)
    /\ ~(inBounds(eText, eChange.range.start) /\ inBounds(eText, eChange.range.end))

\* C7: an edit whose range falls outside the buffer is clamped (the result is
\* that of the edit with its positions moved to the nearest valid position)
\* or reported as an error with the buffer unchanged.
C7_OutOfBoundsClampedOrReported ==
    eOutOfBounds =>
        \/ eResult = applyIncrementalChange(eText, clampedChange(eText, eChange))
        \/ eResult = TypeError

\* C8: under any interleaving of callers the compiler module is instantiated
\* exactly once, once the guard has been called, and the disassembler
\* module at most once: callers that arrive while a load is in flight share
\* it.
C8_ModuleInstantiatedOnce ==
    /\ createModuleCalls <= 1
    /\ lastEnsure.called => createModuleCalls = 1
    /\ createSpirvModuleCalls <= 1
    /\ (\E c \in 1..MaxCompiles : compileTasks[c].pc = "awaiting") => createSpirvModuleCalls = 1

\* two first-time callers wait for the one load in flight
C8_Witness ==
    /\ initTasks[1] = "awaiting"
    /\ initTasks[2] = "awaiting"
    /\ moduleReady = "pending"
    /\ createModuleCalls = 1

\* C9: whichever operation comes first triggers the instantiation and every
\* operation awaits it before it uses the service, so that no operation
\* ever uses a service that is not initialized.
C9_NoOperationUsesUninitializedService == ~lastOp.uninit

\* C10: a failed load is not cached: a call of the initialization guard that
\* finds the earlier load failed starts a new instantiation.
C10_FailedLoadIsRetried == lastEnsure.wasRejected => lastEnsure.started

\* the open handler has just returned for a document
openReturned == lastOp.kind = "didOpen" /\ lastOp.outcome = "returned"

\* C11: once the open handler has finished, the mirrored file at the
\* document's sandbox path holds exactly the opened text, and the compiler
\* service holds the document at the translated sandbox URI with that text.
C11_OpenMirrorsOpenedText ==
    openReturned =>
        /\ getEmscriptenURI(lastOp.uri) \in DOMAIN fs
        /\ fs[getEmscriptenURI(lastOp.uri)] = editor[lastOp.uri]
        /\ getSlangdURI(lastOp.uri) \in DOMAIN slangdDocs
        /\ slangdDocs[getSlangdURI(lastOp.uri)] = editor[lastOp.uri]

\* the support module of the directory a document lies in
supportModuleOf(uri) == playgroundURIOf(getSlangdURI(uri))

Schemes == {SchemeWeb, SchemeFile, SchemeVfs}
isEditorURI(uri) ==
    /\ Len(uri) >= 2
    /\ uri[1] \in Schemes
    /\ \A i \in 2..Len(uri) : uri[i] \notin Schemes

\* C13: for every editor URI u of an outbound call, translating the sandbox
\* URI getSlangdURI(u) back with vscodeURIFromSlangdURI gives u again.
C13_TranslationIsInverse ==
    (tPc = "editor" /\ isEditorURI(tUri)) => tOut.editor = tUri

\* an editor URI whose path begins with one of the configured workspace roots
underKnownRoot(uri) ==
    /\ isEditorURI(uri)
    /\ \E k \in 1..Len(initializationOptions.workspaceUris) :
          startsWith(Tail(uri), initializationOptions.workspaceUris[k])

\* C14: for an editor URI u under a known workspace root, with editorURI =
\* vscodeURIFromSlangdURI and sandboxURI = getSlangdURI,
\* editorURI(sandboxURI(editorURI(u))) = editorURI(u).
C14_RoundTripTranslation ==
    (tPc = "editor" /\ underKnownRoot(tUri)) =>
        vscodeURIFromSlangdURI(getSlangdURI(vscodeURIFromSlangdURI(tUri)))
            = vscodeURIFromSlangdURI(tUri)

\* the URI without its known scheme prefix
afterScheme(uri) == removePrefix(removePrefix(uri, <<SchemeWeb>>), <<SchemeFile>>)

\* the configured workspace roots a path begins with, and the longest of them
workspaceRoots == initializationOptions.workspaceUris
matchingRoots(path) ==
    {k \in 1..Len(workspaceRoots) : startsWith(path, workspaceRoots[k])}
longestRoot(path) ==
    workspaceRoots[CHOOSE k \in matchingRoots(path) :
                      \A j \in matchingRoots(path) :
                         Len(workspaceRoots[j]) <= Len(workspaceRoots[k])]

translatedOut == tPc \in {"sandbox", "editor"}

\* C15: getEmscriptenURI strips the known prefixes, longest match first: from
\* a URI that begins, after its scheme prefix, with a configured workspace
\* root that root is removed, and from a URI that begins with none of them
\* nothing but the scheme prefix is removed.
C15_StripsWorkspaceRoots ==
    translatedOut =>
        LET path == afterScheme(tUri)
        IN  tOut.emscripten =
               IF matchingRoots(path) # {}
               THEN removePrefix(path, longestRoot(path))
               ELSE path

\* the URI begins with no known scheme prefix and no configured workspace root
noKnownPrefix(uri) ==
    /\ ~startsWith(uri, <<SchemeWeb>>)
    /\ ~startsWith(uri, <<SchemeFile>>)
    /\ matchingRoots(uri) = {}

\* C16: a URI that begins with none of the known prefixes is passed through
\* unchanged by getEmscriptenURI, which never fails on it.
C16_UnknownPrefixPassesThrough ==
    (translatedOut /\ noKnownPrefix(tUri)) => tOut.emscripten = tUri

\* a change handler has just run for a document the editor has opened
changeHandled == lastOp.kind = "didChange" /\ lastOp.uri \in DOMAIN editor

\* C17: every change notification is followed by exactly one diagnostics
\* publication, addressed to the editor URI of the notification.
C17_ChangePublishesDiagnostics ==
    changeHandled =>
        /\ lastOp.published \in {"list", "empty"}
        /\ lastOp.publishedTo = lastOp.uri

\* the adapter failed in the change handler: the mirrored file could not be
\* read or a module was not set (the handler threw), or the compiler service
\* threw or returned a malformed diagnostics handle
adapterFailed ==
    \/ lastOp.outcome = "threw"
    \/ lastOp.uninit
    \/ lastOp.service \in {"throws", "malformed"}

\* C18: on any internal adapter failure while a change notification is
\* handled, diagnostics are still delivered for the document, as an empty
\* list.
C18_FailureDeliversEmptyDiagnostics ==
    (changeHandled /\ adapterFailed) => lastOp.published = "empty"

\* C19: a compile request never ends in a thrown fault: whenever the
\* slang/compile handler has ended it has returned a tagged success or a
\* tagged failure with a message.
C19_CompileNeverThrows ==
    (lastOp.kind = "compile" /\ lastOp.outcome # "suspended") =>
        /\ lastOp.outcome = "returned"
        /\ lastOp.response \in {"success", "compileFailure", "spirvFailure"}

\* a slang/compile handler has ended whose disassembly call answered "Error"
disassemblyFailed == lastOp.kind = "compile" /\ lastOp.dis = "Error"

\* C20: when compilation to SPIRV succeeds and the disassembly call fails,
\* the response is a failure with the fixed message "Failed to get spirv
\* string representation": never a success, never with raw or partial code.
C20_DisassemblyFailureIsCompileFailure ==
    disassemblyFailed =>
        /\ lastOp.outcome = "returned"
        /\ lastOp.response = "spirvFailure"
        /\ lastOp.message = "Failed to get spirv string representation"
        /\ lastOp.code = "none"

\* the disassembly failed in a request that had to wait for the disassembler
\* module, with the compiler module loaded
C20_Witness ==
    /\ disassemblyFailed
    /\ spirvWasmModule /\ compiler
    /\ lastOp.resumed

\* the slang/compile handler has answered a request with a result
compileAnswered == lastOp.kind = "compile" /\ lastOp.outcome = "returned"

\* C21 (as stated): a compile request that sets noWebGPU is handled without a
\* call of the disassembler, whatever its target.
C21_NoWebGPUSkipsDisassembly ==
    (lastOp.kind = "compile" /\ lastOp.request.noWebGPU) => lastOp.dis = "none"

\* C21 (amended): whether the disassembler is called depends on the target
\* and not on noWebGPU: a request that is answered had the disassembler called
\* exactly when its target is SPIRV and its compilation succeeded.
C21_DisassemblyFollowsTarget ==
    compileAnswered =>
        (lastOp.dis # "none" <=>
            (lastOp.request.target = "SPIRV" /\ lastOp.response # "compileFailure"))

\* a SPIRV request with noWebGPU set was answered with disassembled text
C21_Witness ==
    /\ compileAnswered
    /\ lastOp.request.noWebGPU
    /\ lastOp.request.target = "SPIRV"
    /\ lastOp.dis = "text"
    /\ lastOp.code = "text"

\* the sandbox paths the manifest's URIs translate to
manifestPaths(manifest) ==
    {getEmscriptenURI(manifest[k].uri) : k \in 1..Len(manifest)}

\* the content the manifest gives a path: that of its last entry for it
manifestContent(manifest, path) ==
    LET entries == {k \in 1..Len(manifest) : getEmscriptenURI(manifest[k].uri) = path}
        last    == CHOOSE k \in entries : \A j \in entries : j <= k
    IN  manifest[last].content

\* every file of the payload's manifest is in the sandbox with its content
manifestLoaded ==
    \A path \in manifestPaths(initializationOptions.files) :
        /\ path \in DOMAIN fs
        /\ fs[path] = manifestContent(initializationOptions.files, path)

\* C22: once initialize has returned, and so whenever a compile request is
\* handled, every file of the manifest is in the sandbox at the translated
\* path of its URI with its manifest content; of two entries that translate
\* to one path the later one gives the content.
C22_ManifestLoadedBeforeReturn ==
    ((\E i \in 1..MaxInitCalls : initTasks[i] = "returned") \/ lastOp.kind = "compile")
        => manifestLoaded

\* a compile request is handled after a manifest with two entries for one
\* path was loaded: the file holds the content of the second
C22_Witness ==
    /\ lastOp.kind = "compile"
    /\ initTasks[1] = "returned"
    /\ initializationOptions.files = ManifestTwice
    /\ getEmscriptenURI(UriShader) = getEmscriptenURI(UriShaderTwin)
    /\ fs[getEmscriptenURI(UriShader)] = <<"b">>

\* an initialize request was handled to its end with a payload that has no
\* manifest, or with no payload
initializedWithoutManifest ==
    /\ lastOp.kind = "initialize"
    /\ lastOp.outcome # "suspended"
    /\ ~(initializationOptions.present /\ initializationOptions.hasFiles)

\* C23: the manifest is optional: an initialize whose payload carries no
\* manifest, or that has no payload at all, returns the capabilities, with
\* nothing preloaded into the sandbox.
C23_ManifestIsOptional ==
    initializedWithoutManifest => (lastOp.outcome = "returned" /\ fs = NoFiles)

\* C24: the sandbox filesystem persists: a path that holds a file holds one
\* after every step of open, change, close, query and compile; no operation
\* removes a mirrored file.
C24_MirroredFilesPersist == [][DOMAIN fs \subseteq DOMAIN fs']_vars

\* the document was mirrored, then closed, and a compile request was answered
\* after that: its file is still in the sandbox
C24_Witness ==
    /\ compileAnswered
    /\ UriShader \notin DOMAIN editor
    /\ getEmscriptenURI(UriShader) \in DOMAIN fs
    /\ Cardinality(DOMAIN fs) = 2

\* C25: a document is created on open and destroyed on close: once the close
\* notification for a URI has been handled the compiler service no longer
\* holds the URI as an open document.
C25_CloseDestroysDocument ==
    lastOp.kind = "didClose" => getSlangdURI(lastOp.uri) \notin DOMAIN slangdDocs

\* a step that handles completion, hover, definition, signatureHelp or
\* documentSymbol
queryHandled == \E query \in Queries, uri \in EditorURIs : QueryRequest(query, uri)

\* C26: handling a query leaves the mirrored filesystem, the documents
\* registered with the compiler service, the support-module dedupe set and
\* the initialization state as they were.
C26_QueriesChangeNothing ==
    [][queryHandled =>
          UNCHANGED <<fs, slangdDocs, loadedPlaygroundFiles, slangd, compiler,
                      slangWasmModule, moduleReady, initializationOptions, initTasks>>]_vars

\* a query was answered about a document that is mirrored and registered
C26_Witness ==
    /\ lastOp.kind \in Queries
    /\ lastOp.outcome = "returned"
    /\ getEmscriptenURI(lastOp.uri) \in DOMAIN fs
    /\ getSlangdURI(lastOp.uri) \in DOMAIN slangdDocs
    /\ loadedPlaygroundFiles # {}

\* C27: in the compile command a compile request for HLSL, GLSL or CUDA is
\* sent only after the entry-point discovery request was answered and a name
\* picked from the answer, and it carries that name; for every other target
\* no discovery request is sent and the entry point is empty; after either
\* prompt is dismissed no compile request is sent.
C27_DiscoveryPrecedesCompile ==
    command.kind = "compile" =>
        /\ command.sent # NoRequest =>
               /\ command.sent.target = command.target
               /\ IF command.sent.target \in {"HLSL", "GLSL", "CUDA"}
                  THEN /\ command.discovery = "answered"
                       /\ \E k \in 1..Len(command.entrypoints) :
                              command.entrypoints[k] = command.selected
                       /\ command.sent.entrypoint = command.selected
                  ELSE /\ command.discovery = "none"
                       /\ command.sent.entrypoint = ""
        /\ command.pc \in {"pickTarget", "pickEntrypoint"} => command.sent = NoRequest
        /\ command.outcome = "dismissed" => command.sent = NoRequest

\* an HLSL compile was sent with the second of two discovered names, and its
\* code was shown
C27_Witness ==
    /\ command.kind = "compile"
    /\ command.sent.target = "HLSL"
    /\ command.entrypoints = <<"main", "other">>
    /\ command.sent.entrypoint = "other"
    /\ command.outcome = "shown"

\* C28: a plan is handed to the playground's runtime only if every resource
\* a call command's size depends on is among the plan's resource commands.
C28_PlanBindingsExist ==
    command.outcome = "handedOff" =>
        \A k \in 1..Len(command.plan.callCommands) :
            command.plan.callCommands[k].call = "sizeOf" =>
                \E j \in 1..Len(command.plan.resourceCommands) :
                    command.plan.resourceCommands[j].name =
                        command.plan.callCommands[k].resourceName

\* C29: the reflection command shows the reflection whenever the compilation
\* succeeded, whatever the reflection holds: no dispatchable entry point,
\* parameters without a recognized attribute.
C29_ReflectionShownOnSuccess ==
    (command.kind = "reflection" /\ command.response = "success")
        => command.outcome = "shown"

\* the reflection shown has no entry point and a parameter without a
\* recognized attribute
C29_Witness ==
    /\ command.kind = "reflection"
    /\ command.outcome = "shown"
    /\ command.reflection.entryPoints = <<>>
    /\ Len(command.reflection.parameters) = 1
    /\ command.reflection.parameters[1].attribute = "none"

\* the waiting call in slot c is answered by this step: one answer, to its
\* own request, made from its own compilation, the other slots left alone
answeredAlone(c) ==
    /\ compileTasks'[c].pc = "idle"
    /\ lastOp'.kind = "compile"
    /\ lastOp'.outcome # "suspended"
    /\ lastOp'.request = compileTasks[c].params
    /\ lastOp'.outcome = "returned" => lastOp'.of = compileTasks[c].params
    /\ \A d \in 1..MaxCompiles : d # c => compileTasks'[d] = compileTasks[d]

\* C30: overlapping compile requests give independent results: while a call
\* waits for the disassembler module, handling another request leaves it as
\* it is; it is answered once, in a step that answers no other call; and
\* every answer is made from the compilation of the request it answers.
C30_OverlappingCompilesIndependent ==
    [][/\ \A c \in 1..MaxCompiles :
              compileTasks[c].pc = "awaiting" =>
                  (compileTasks'[c] = compileTasks[c] \/ answeredAlone(c))
       /\ (lastOp'.kind = "compile" /\ lastOp'.outcome = "returned")
              => lastOp'.of = lastOp'.request]_vars

\* a request was answered with disassembled text while a call for another
\* source still waits
C30_Witness ==
    /\ compileAnswered
    /\ lastOp.dis = "text"
    /\ \E c \in 1..MaxCompiles :
           /\ compileTasks[c].pc = "awaiting"
           /\ compileTasks[c].params.sourceCode # lastOp.request.sourceCode

\* a step that handles a change notification for the URI
changeHandledFor(uri) ==
    \E changes \in SyncBatches, service \in ServiceOutcomes :
        DidChangeTextDocument(uri, changes, service)

\* C31: a change notification for a document whose file is not in the mirror
\* fails at the read of the file: the handler ends with the error, the
\* mirrored filesystem is as before and no change reaches the compiler
\* service.
C31_ChangeOfMissingFileFails ==
    [][\A uri \in EditorURIs :
          (changeHandledFor(uri) /\ getEmscriptenURI(uri) \notin DOMAIN fs) =>
              /\ lastOp'.kind = "didChange"
              /\ lastOp'.outcome = "threw"
              /\ lastOp'.service = "none"
              /\ lastOp'.published = "none"
              /\ fs' = fs
              /\ slangdDocs' = slangdDocs]_vars

\* with the compiler module loaded, a change for a document that was never
\* opened or preloaded ended with the error of the read
C31_Witness ==
    /\ lastOp.kind = "didChange"
    /\ lastOp.outcome = "threw"
    /\ ~lastOp.uninit
    /\ slangWasmModule /\ slangd
    /\ getEmscriptenURI(lastOp.uri) \notin DOMAIN fs

\* C32: the edits of one change notification are applied to one buffer and
\* the mirrored file is written once, with the content that has all of
\* them: nothing is written when an edit throws, and no content that has
\* only a proper prefix of the batch's edits is stored.
C32_BatchWrittenOnce ==
    ePc = "modified" =>
        LET full == applyChanges(eText, eBatch)
        IN  /\ full # TypeError => eWrites = <<full>> /\ eResult = full
            /\ full = TypeError => eWrites = <<>> /\ eResult = eText
            /\ \A i \in 1..Len(eWrites), k \in 0..(Len(eBatch) - 1) :
                   eWrites[i] = applyChanges(eText, SubSeq(eBatch, 1, k)) =>
                       eWrites[i] = full

\* a batch of two edits whose first edit alone gives another content than
\* the two together was written back
C32_Witness ==
    /\ ePc = "modified"
    /\ Len(eBatch) = 2
    /\ Len(eWrites) = 1
    /\ applyChanges(eText, <<eBatch[1]>>) # eResult
    /\ applyChanges(eText, <<eBatch[1]>>) # eText

\* the editor URIs other than the translated one that get the same sandbox
\* path or the same sandbox URI
sharingSandboxPath ==
    {v \in InputURIs :
        /\ isEditorURI(v)
        /\ v # tUri
        /\ \/ getEmscriptenURI(v) = tOut.emscripten
           \/ getSlangdURI(v) = tOut.slangd}

\* C33: two distinct editor URIs never translate to the same sandbox path,
\* so a change notification for one editor URI cannot reach the mirrored
\* file of another.
C33_DistinctURIsDistinctPaths ==
    (translatedOut /\ isEditorURI(tUri)) => sharingSandboxPath = {}

\* C38: translating a sandbox path again changes nothing:
\* getEmscriptenURI(getEmscriptenURI(u)) = getEmscriptenURI(u) and
\* getSlangdURI(getSlangdURI(u)) = getSlangdURI(u) for every URI u.
C38_TranslationIdempotent ==
    translatedOut =>
        /\ getEmscriptenURI(tOut.emscripten) = tOut.emscripten
        /\ getSlangdURI(tOut.slangd) = tOut.slangd

\* the sandbox paths of the files the user supplied: the documents opened so
\* far and the files of the manifest
userPaths ==
    {getEmscriptenURI(u) : u \in DOMAIN editor}
        \cup (IF initializationOptions.present /\ initializationOptions.hasFiles
               THEN manifestPaths(initializationOptions.files) ELSE {})

\* C34: an open that returns leaves every file the user supplied at another
\* path as it was, in the mirror and in the compiler service, and leaves at
\* the opened path the opened text: loading the support module overwrites
\* no user file named playground.slang.
C34_OpenKeepsUserFiles ==
    [][\A uri \in OpenURIs, text \in OpenTexts :
          (DidOpenTextDocument(uri, text) /\ lastOp'.outcome = "returned") =>
              /\ fs'[getEmscriptenURI(uri)] = text
              /\ slangdDocs'[getSlangdURI(uri)] = text
              /\ \A path \in (userPaths \cap DOMAIN fs) \ {getEmscriptenURI(uri)} :
                     fs'[path] = fs[path]
              /\ \A path \in userPaths \ {getEmscriptenURI(uri)} :
                     (<<SchemeFile>> \o path) \in DOMAIN slangdDocs =>
                         slangdDocs'[<<SchemeFile>> \o path]
                             = slangdDocs[<<SchemeFile>> \o path]]_vars

\* C35: a change notification updates the mirror and the compiler service
\* together or not at all: when the compiler service fails while the change
\* is handed to it, the mirrored files are as they were before the
\* notification.
C35_ChangeIsAllOrNothing ==
    [][\A uri \in EditorURIs, changes \in SyncBatches :
          DidChangeTextDocument(uri, changes, "throws") =>
              (fs' = fs /\ slangdDocs' = slangdDocs)]_vars

\* the steps of a playground run that succeeded: an entry point was detected
\* (the compile request was sent), the compile answered a success, the
\* resource commands and the call commands were read from its reflection
runStepsSucceeded ==
    /\ command.sent # NoRequest
    /\ command.response = "success"
    /\ getResourceCommandsFromAttributes(command.reflection).succ
    /\ parseCallCommands(command.reflection).succ

\* C36: the playground run hands a plan to the webview only after entry-point
\* detection, compilation, resource-command and call-command interpretation
\* have all succeeded; when one of them fails an error message is shown, no
\* panel is created, no message is posted and no later step is performed.
C36_RunHandsOffAfterAllSteps ==
    (command.kind = "playgroundRun" /\ command.pc = "idle") =>
        /\ command.outcome = "handedOff" <=> runStepsSucceeded
        /\ ~runStepsSucceeded =>
               /\ command.outcome = "error"
               /\ command.plan = NoPlan
        /\ command.response # "success" => command.reflection = NoReflection

\* the step leaves the disassembler module alone: not loaded, not waited for
disassemblerUntouched ==
    UNCHANGED <<spirvWasmModule, spirvModuleReady, createSpirvModuleCalls, compileTasks>>

\* C37: a slang/compile request answered with a success for SPIRV carries the
\* compiler's result of that request with only the code replaced by the
\* disassembler's text; for every other target the answer is the compiler's
\* result as it is, and the disassembler module is neither loaded nor
\* called; a failed compilation is returned as it is and never reaches the
\* disassembler.
C37_OnlyCodeReplaced ==
    [][/\ \A c \in 1..MaxCompiles, params \in CompileRequests,
             compiled \in BOOLEAN, disassembled \in BOOLEAN :
              (CompileRequest(c, params, compiled, disassembled) /\ compiler) =>
                  /\ (compiled /\ params.target # "SPIRV") =>
                         /\ lastOp'.outcome = "returned"
                         /\ lastOp'.response = "success"
                         /\ lastOp'.of = params
                         /\ lastOp'.code = "raw"
                         /\ lastOp'.dis = "none"
                         /\ disassemblerUntouched
                  /\ ~compiled =>
                         /\ lastOp'.outcome = "returned"
                         /\ lastOp'.response = "compileFailure"
                         /\ lastOp'.of = params
                         /\ lastOp'.message = CompilerMessage
                         /\ lastOp'.code = "none"
                         /\ lastOp'.dis = "none"
                         /\ disassemblerUntouched
       /\ (/\ lastOp'.kind = "compile"
           /\ lastOp'.response = "success"
           /\ lastOp'.request.target = "SPIRV") =>
              /\ lastOp'.of = lastOp'.request
              /\ lastOp'.dis = "text"
              /\ lastOp'.code = "text"
              /\ spirvWasmModule']_vars

\* a WGSL request was answered with the compiler's code after a SPIRV request
\* had the disassembler module loaded: the module was loaded once, for the
\* SPIRV request alone
C37_Witness ==
    /\ compileAnswered
    /\ lastOp.request.target = "WGSL"
    /\ lastOp.response = "success"
    /\ lastOp.code = "raw"
    /\ lastOp.dis = "none"
    /\ spirvWasmModule
    /\ createSpirvModuleCalls = 1

\* the mirror has a file at the sandbox URI without its file:/// prefix
inMirror(sandboxURI) == removePrefix(sandboxURI, <<SchemeFile>>) \in DOMAIN fs

\* C39: after every handler, every document registered with the compiler
\* service has a file in the mirror at its sandbox URI without file:///,
\* and every directory of the support-module dedupe set has the support
\* module in the mirror, also when the open handler failed part-way.
C39_RegisteredDocumentsMirrored ==
    /\ \A sandboxURI \in DOMAIN slangdDocs : inMirror(sandboxURI)
    /\ \A playgroundURI \in loadedPlaygroundFiles : inMirror(playgroundURI)

====
